---- MODULE Spec2Model ----
(***************************************************************************)
(* A model of cppcheck's TeamCity report sink (cli/teamcityoutput.cpp):    *)
(* the service-message escaper, the two message formatters and the         *)
(* stateful TeamCityOutput logger with its duplicate suppression.          *)
(*                                                                         *)
(* A std::string is a TLA+ string; its characters are the one-character    *)
(* strings SubSeq(s, i, i).  Positions are 0-based as in the C++ code.     *)
(* The output stream is one string: every write appends to it.             *)
(***************************************************************************)
EXTENDS Integers, Sequences, FiniteSets, TLC

VARIABLES
    verbose,                \* _settings->verbose
    basePaths,              \* _settings->basePaths
    output,                 \* the text written to TeamCityOutput::output
    _latestProgressFile,    \* TeamCityOutput::_latestProgressFile
    _latestProgressStage,   \* TeamCityOutput::_latestProgressStage
    _errorList,             \* TeamCityOutput::_errorList
    calls,                  \* history: the calls made so far, oldest first
    pre,                    \* history: the instance's state before the last call
    input,                  \* the argument of a function under test
    result                  \* the value a function under test returned

vars == <<verbose, basePaths, output, _latestProgressFile, _latestProgressStage,
          _errorList, calls, pre, input, result>>

(***************************************************************************)
(* Bounds of the model.                                                    *)
(***************************************************************************)
MaxCalls == 3
MaxStrLen == 3
MaxInserts == 3

(***************************************************************************)
(* std::string                                                             *)
(***************************************************************************)
npos == -1

\* s[pos], pos 0-based
At(s, pos) == SubSeq(s, pos + 1, pos + 1)

\* s.substr(pos)
Substr(s, pos) == SubSeq(s, pos + 1, Len(s))

\* s.substr(0, pos)
Prefix(s, pos) == SubSeq(s, 1, pos)

\* s[pos] = c
SetAt(s, pos, c) == Prefix(s, pos) \o c \o Substr(s, pos + 1)

\* s.insert(pos, t)
Insert(s, pos, t) == Prefix(s, pos) \o t \o Substr(s, pos)

\* printable ASCII from the space (32) to the underscore (95), and from a (97) on
AsciiLow == " !\"#$%&'()*+,-./0123456789:;<=>?@ABCDEFGHIJKLMNOPQRSTUVWXYZ[\\]^_"

AsciiHigh == "abcdefghijklmnopqrstuvwxyz{|}~"

\* the byte value of a character
CodeOf == [c \in {SubSeq(AsciiLow, i, i) : i \in 1..Len(AsciiLow)}
                 \cup {SubSeq(AsciiHigh, i, i) : i \in 1..Len(AsciiHigh)}
                 \cup {"\n", "\r"} |->
             IF c = "\n" THEN 10
             ELSE IF c = "\r" THEN 13
             ELSE IF \E i \in 1..Len(AsciiLow) : SubSeq(AsciiLow, i, i) = c
                  THEN 31 + (CHOOSE i \in 1..Len(AsciiLow) : SubSeq(AsciiLow, i, i) = c)
                  ELSE 96 + (CHOOSE i \in 1..Len(AsciiHigh) : SubSeq(AsciiHigh, i, i) = c)]

\* std::string operator< : byte-wise lexicographic, a proper prefix first
RECURSIVE StrLess(_, _)
StrLess(a, b) ==
    IF Len(b) = 0 THEN FALSE
    ELSE IF Len(a) = 0 THEN TRUE
    ELSE IF At(a, 0) = At(b, 0) THEN StrLess(Substr(a, 1), Substr(b, 1))
    ELSE CodeOf[At(a, 0)] < CodeOf[At(b, 0)]

\* std::to_string of a non-negative integer
RECURSIVE to_string(_)
to_string(n) ==
    IF n < 10 THEN SubSeq("0123456789", n + 1, n + 1)
    ELSE to_string(n \div 10) \o SubSeq("0123456789", (n % 10) + 1, (n % 10) + 1)

\* the strings over alphabet of length exactly n, and of length at most n
RECURSIVE StringsOfLen(_, _)
StringsOfLen(alphabet, n) ==
    IF n = 0 THEN {""}
    ELSE {s \o c : s \in StringsOfLen(alphabet, n - 1), c \in alphabet}

StringsUpTo(alphabet, n) == UNION {StringsOfLen(alphabet, k) : k \in 0..n}

(***************************************************************************)
(* serviceMessageEscape                                                    *)
(***************************************************************************)
\* the characters find_first_of looks for: "'\n\r[]|"
EscapeChars == {"'", "\n", "\r", "[", "]", "|"}

\* result.find_first_of("'\n\r[]|", pos)
FindFirstOf(s, pos) ==
    LET hits == {i \in pos..(Len(s) - 1) : At(s, i) \in EscapeChars}
    IN  IF hits = {} THEN npos
        ELSE CHOOSE i \in hits : \A j \in hits : i <= j

\* a mutant: the carriage return is not rewritten to its letter
RewriteChar_NoCR(c) == IF c = "\n" THEN "n" ELSE c

\* the character a newline or a carriage return is overwritten with
RewriteChar(c) ==
    IF c = "\n" THEN "n"
    ELSE IF c = "\r" THEN "r"
    ELSE c

\* the while loop of serviceMessageEscape, from the state (result, pos)
RECURSIVE EscapeLoop(_, _)
EscapeLoop(res, pos) ==
    IF ~(pos < Len(res)) THEN res
    ELSE LET p == FindFirstOf(res, pos)
         IN  IF p = npos THEN res
             ELSE EscapeLoop(Insert(SetAt(res, p, RewriteChar(At(res, p))), p, "|"),
                             p + 2)

serviceMessageEscape(str) == EscapeLoop(str, 0)

(***************************************************************************)
(* std::map<std::string, std::string>: a sequence of <<key, value>> pairs  *)
(* kept strictly ascending by key.                                         *)
(***************************************************************************)
EmptyMap == <<>>

MapKeys(m) == {m[i][1] : i \in 1..Len(m)}

\* m.at(k), for a key the map holds
MapGet(m, k) == m[CHOOSE i \in 1..Len(m) : m[i][1] = k][2]

\* m[k] = v : overwrite the key's value, or insert the pair at its place
MapSet(m, k, v) ==
    IF k \in MapKeys(m)
    THEN [i \in 1..Len(m) |-> IF m[i][1] = k THEN <<k, v>> ELSE m[i]]
    ELSE LET n == Cardinality({i \in 1..Len(m) : StrLess(m[i][1], k)})
         IN  SubSeq(m, 1, n) \o <<<<k, v>>>> \o SubSeq(m, n + 1, Len(m))

\* the map after the assignments m[k] = v of ops, made in order
RECURSIVE MapOfInserts(_)
MapOfInserts(ops) ==
    IF ops = <<>> THEN EmptyMap
    ELSE LET n == Len(ops)
         IN  MapSet(MapOfInserts(SubSeq(ops, 1, n - 1)), ops[n][1], ops[n][2])

(***************************************************************************)
(* formatServiceMessage                                                    *)
(***************************************************************************)
\* the for loop over the map's pairs, from pair i on
RECURSIVE FormatPairs(_, _)
FormatPairs(values, i) ==
    IF i > Len(values) THEN ""
    ELSE " " \o values[i][1] \o "='" \o serviceMessageEscape(values[i][2]) \o "'"
         \o FormatPairs(values, i + 1)

\* a mutant: the values are written as they are, unescaped
formatServiceMessageMap_Raw(messageName, values) ==
    LET RECURSIVE Raw(_)
        Raw(i) == IF i > Len(values) THEN ""
                  ELSE " " \o values[i][1] \o "='" \o values[i][2] \o "'" \o Raw(i + 1)
    IN  "##teamcity[" \o messageName \o Raw(1) \o "]"

\* formatServiceMessage(messageName, const std::map&)
formatServiceMessageMap(messageName, values) ==
    "##teamcity[" \o messageName \o FormatPairs(values, 1) \o "]"

\* formatServiceMessage(messageName, const std::string&)
formatServiceMessageValue(messageName, value) ==
    "##teamcity[" \o messageName \o " '" \o serviceMessageEscape(value) \o "']"

(***************************************************************************)
(* Collaborators of the sink that live in cppcheck's library: the severity *)
(* enumeration, ErrorMessage and Path.                                     *)
(***************************************************************************)
\* enum Severity::SeverityType
Severity_none == 0
Severity_error == 1
Severity_warning == 2
Severity_style == 3
Severity_performance == 4
Severity_portability == 5
Severity_information == 6
Severity_debug == 7

Severities == Severity_none..Severity_debug

\* Severity::toString
Severity_toString(severity) ==
    CASE severity = Severity_none -> ""
      [] severity = Severity_error -> "error"
      [] severity = Severity_warning -> "warning"
      [] severity = Severity_style -> "style"
      [] severity = Severity_performance -> "performance"
      [] severity = Severity_portability -> "portability"
      [] severity = Severity_information -> "information"
      [] severity = Severity_debug -> "debug"

\* ErrorMessage::serialize: the canonical serialization, one for each content
serialize(msg) ==
    <<msg.id, msg.severity, msg.cwe, msg.inconclusive, msg.shortMessage,
      msg.verboseMessage, msg.callStack, msg.file0>>

\* ErrorMessage::FileLocation::getfile
getfile(stackEntry) == stackEntry.file

\* Path::fromNativeSeparators: every backslash becomes a slash
RECURSIVE Path_fromNativeSeparators(_)
Path_fromNativeSeparators(path) ==
    IF path = "" THEN ""
    ELSE (IF At(path, 0) = "\\" THEN "/" ELSE At(path, 0))
         \o Path_fromNativeSeparators(Substr(path, 1))

\* Path::isAbsolute
Path_isAbsolute(path) == path # "" /\ At(path, 0) = "/"

\* Path::getRelativePath: the path below the first base path it lies under
RECURSIVE Path_getRelativePath(_, _)
Path_getRelativePath(absolutePath, bases) ==
    IF bases = <<>> THEN absolutePath
    ELSE LET bp == Head(bases)
             under == Len(absolutePath) >= Len(bp) /\ Prefix(absolutePath, Len(bp)) = bp
         IN  IF absolutePath = bp \/ bp = "" \/ ~under
             THEN Path_getRelativePath(absolutePath, Tail(bases))
             ELSE IF At(bp, Len(bp) - 1) = "/"
             THEN Substr(absolutePath, Len(bp))
             ELSE IF At(absolutePath, Len(bp)) = "/"
             THEN Substr(absolutePath, Len(bp) + 1)
             ELSE Path_getRelativePath(absolutePath, Tail(bases))

(***************************************************************************)
(* TeamCityOutput                                                          *)
(***************************************************************************)
\* the instance's own state, as the history variable pre keeps it
Snapshot ==
    [output |-> output, file |-> _latestProgressFile,
     stage |-> _latestProgressStage, errorList |-> _errorList]

\* TeamCityOutput::TeamCityOutput: nothing written, no progress pair, no error seen
Constructed ==
    /\ output = ""
    /\ _latestProgressFile = ""
    /\ _latestProgressStage = ""
    /\ _errorList = {}
    /\ calls = <<>>
    /\ pre = [output |-> "", file |-> "", stage |-> "", errorList |-> {}]

\* a call is made: the histories record it, what it wrote and the state it found
Logged(op, arg) ==
    /\ calls' = Append(calls, [op |-> op, arg |-> arg, wrote |-> Substr(output', Len(output))])
    /\ pre' = Snapshot

\* a mutant: the text is passed to the single-value overload
reportOutLine_SingleValue(outmsg) == formatServiceMessageValue("message", outmsg)

\* the line reportOut writes
reportOutLine(outmsg) ==
    formatServiceMessageMap("message", MapOfInserts(<<<<"text", outmsg>>>>))

\* TeamCityOutput::reportOut
reportOut(outmsg) ==
    /\ Len(calls) < MaxCalls
    /\ output' = output \o reportOutLine(outmsg) \o "\n"
    /\ Logged("reportOut", outmsg)
    /\ UNCHANGED <<verbose, basePaths, _latestProgressFile, _latestProgressStage,
                   _errorList, input, result>>

\* a mutant: the stage is compared by address, which the stored copy never matches
SameProgress_ByAddress(filename, stage) == _latestProgressFile = filename /\ FALSE

\* the test of reportProgress: the report repeats the last one's file and stage
SameProgress(filename, stage) ==
    _latestProgressFile = filename /\ _latestProgressStage = stage

\* the line reportProgress writes
reportProgressLine(filename, stage) ==
    formatServiceMessageValue("progressMessage",
                              "inspecting '" \o filename \o "' stage: " \o stage)

\* TeamCityOutput::reportProgress
reportProgress(filename, stage, value) ==
    /\ Len(calls) < MaxCalls
    /\ IF SameProgress(filename, stage)
       THEN UNCHANGED <<output, _latestProgressFile, _latestProgressStage>>
       ELSE /\ _latestProgressFile' = filename
            /\ _latestProgressStage' = stage
            /\ output' = output \o reportProgressLine(filename, stage) \o "\n"
    /\ Logged("reportProgress", [filename |-> filename, stage |-> stage, value |-> value])
    /\ UNCHANGED <<verbose, basePaths, _errorList, input, result>>

\* values["typeId"] and values["message"]
IdentityValues(values, msg) ==
    MapSet(MapSet(values, "typeId", msg.id),
           "message", IF verbose THEN msg.verboseMessage ELSE msg.shortMessage)

\* a mutant: the line and the column are left out
LocationValues_FileOnly(values, msg) ==
    IF msg.callStack = <<>>
    THEN MapSet(values, "file", msg.file0)
    ELSE MapSet(values, "file", getfile(Head(msg.callStack)))

\* values["file"], and with a call stack values["line"] and values["column"]
LocationValues(values, msg) ==
    IF msg.callStack = <<>>
    THEN MapSet(values, "file", msg.file0)
    ELSE LET stackEntry == Head(msg.callStack)
         IN  MapSet(MapSet(MapSet(values, "file", getfile(stackEntry)),
                           "line", to_string(stackEntry.line)),
                    "column", to_string(stackEntry.col))

\* values["cwe"] and values["inconclusive"]
FlagValues(values, msg) ==
    LET withCwe == IF msg.cwe # 0 THEN MapSet(values, "cwe", to_string(msg.cwe))
                   ELSE values
    IN  IF msg.inconclusive THEN MapSet(withCwe, "inconclusive", "true") ELSE withCwe

\* a mutant: the fake file name gets the "./" prefix too
FileValue_PrefixAll(values) ==
    IF MapGet(values, "file") = ""
    THEN MapSet(values, "file", "./" \o "<cppcheck>")
    ELSE LET native == Path_fromNativeSeparators(MapGet(values, "file"))
             relative == IF Path_isAbsolute(native)
                         THEN Path_getRelativePath(native, basePaths)
                         ELSE native
         IN  MapSet(values, "file", "./" \o relative)

\* values["file"] rewritten: the fake file name, or the relative path after "./"
FileValue(values) ==
    IF MapGet(values, "file") = ""
    THEN MapSet(values, "file", "<cppcheck>")
    ELSE LET native == Path_fromNativeSeparators(MapGet(values, "file"))
             relative == IF Path_isAbsolute(native)
                         THEN Path_getRelativePath(native, basePaths)
                         ELSE native
         IN  MapSet(values, "file", "./" \o relative)

\* a mutant: the case labels of style and performance fall into the wrong group
SeverityValue_StyleWeak(values, msg) ==
    CASE msg.severity = Severity_error -> MapSet(values, "SEVERITY", "ERROR")
      [] msg.severity = Severity_warning -> MapSet(values, "SEVERITY", "WARNING")
      [] msg.severity \in {Severity_information, Severity_debug, Severity_performance} ->
            MapSet(values, "SEVERITY", "INFO")
      [] msg.severity \in {Severity_style, Severity_portability} ->
            MapSet(values, "SEVERITY", "WEAK WARNING")
      [] OTHER -> values

\* the switch on msg._severity
SeverityValue(values, msg) ==
    CASE msg.severity = Severity_error -> MapSet(values, "SEVERITY", "ERROR")
      [] msg.severity = Severity_warning -> MapSet(values, "SEVERITY", "WARNING")
      [] msg.severity \in {Severity_information, Severity_debug, Severity_style} ->
            MapSet(values, "SEVERITY", "INFO")
      [] msg.severity \in {Severity_performance, Severity_portability} ->
            MapSet(values, "SEVERITY", "WEAK WARNING")
      [] OTHER -> values

\* the map reportErr builds for a message
ErrValues(msg) ==
    SeverityValue(
        FileValue(FlagValues(LocationValues(IdentityValues(EmptyMap, msg), msg), msg)),
        msg)

\* the line reportErr writes
reportErrLine(msg) == formatServiceMessageMap("inspection", ErrValues(msg))

\* a mutant: no message is taken for a duplicate
IsDuplicate_Never(serializedMsg) == FALSE

\* !_errorList.insert(serializedMsg).second
IsDuplicate(serializedMsg) == serializedMsg \in _errorList

\* TeamCityOutput::reportErr
reportErr(msg) ==
    /\ Len(calls) < MaxCalls
    /\ LET serializedMsg == serialize(msg)
       IN  IF IsDuplicate(serializedMsg)
           THEN UNCHANGED <<output, _errorList>>
           ELSE /\ _errorList' = _errorList \cup {serializedMsg}
                /\ output' = output \o reportErrLine(msg) \o "\n"
    /\ Logged("reportErr", msg)
    /\ UNCHANGED <<verbose, basePaths, _latestProgressFile, _latestProgressStage,
                   input, result>>

\* the line the inspectionTypeLogger writes for a message
inspectionTypeLine(msg) ==
    formatServiceMessageMap("inspectionType",
        MapOfInserts(<<
            <<"id", msg.id>>,
            <<"name", msg.id>>,
            <<"description", IF verbose THEN msg.verboseMessage ELSE msg.shortMessage>>,
            <<"category", "cppcheck " \o Severity_toString(msg.severity)>> >>))

\* ErrorLogger::reportProgress, which the inspectionTypeLogger inherits
ErrorLogger_reportProgress(call) == ""

\* a mutant: the logger's reportOut writes a message line
inspectionTypeLogger_Chatty(call) ==
    CASE call.op = "reportErr" -> inspectionTypeLine(call.arg) \o "\n"
      [] call.op = "reportOut" -> reportOutLine(call.arg) \o "\n"
      [] call.op = "reportProgress" -> ErrorLogger_reportProgress(call)

\* what the inspectionTypeLogger writes for one call made to it
inspectionTypeLogger(call) ==
    CASE call.op = "reportErr" -> inspectionTypeLine(call.arg) \o "\n"
      [] call.op = "reportOut" -> ""
      [] call.op = "reportProgress" -> ErrorLogger_reportProgress(call)

\* what the logger writes for the calls the getErrorMessages functions make
RECURSIVE CatalogOutput(_)
CatalogOutput(catalog) ==
    IF catalog = <<>> THEN ""
    ELSE inspectionTypeLogger(Head(catalog)) \o CatalogOutput(Tail(catalog))

\* TeamCityOutput::reportInspectionTypes; catalog is the sequence of calls that
\* Check::getErrorMessages and Preprocessor::getErrorMessages make to the logger
reportInspectionTypes(catalog) ==
    /\ Len(calls) < MaxCalls
    /\ output' = output \o CatalogOutput(catalog)
    /\ Logged("reportInspectionTypes", catalog)
    /\ UNCHANGED <<verbose, basePaths, _latestProgressFile, _latestProgressStage,
                   _errorList, input, result>>

(***************************************************************************)
(* The sink under arbitrary call sequences.                                *)
(***************************************************************************)
\* ErrorLogger::ErrorMessage
ErrorMessage(id, severity, cwe, inconclusive, callStack, file0, shortMessage, verboseMessage) ==
    [id |-> id, severity |-> severity, cwe |-> cwe, inconclusive |-> inconclusive,
     callStack |-> callStack, file0 |-> file0,
     shortMessage |-> shortMessage, verboseMessage |-> verboseMessage]

\* ErrorLogger::ErrorMessage::FileLocation
FileLocation(file, line, col) == [file |-> file, line |-> line, col |-> col]

\* the texts passed to reportOut
Texts == {"hi", "a'\nb"}

\* the arguments passed to reportProgress
ProgressFiles == {"", "a.cpp"}

ProgressStages == {"", "parse"}

ProgressValues == {0, 9}

\* the messages passed to reportErr: two that differ in the verbose text alone,
\* and an internal error without a location
Msgs ==
    {ErrorMessage("nullPointer", Severity_error, 476, FALSE,
                  <<FileLocation("/proj/src/a.cpp", 12, 3)>>, "a.cpp", "Null [p]", "Null [p]."),
     ErrorMessage("nullPointer", Severity_error, 476, FALSE,
                  <<FileLocation("/proj/src/a.cpp", 12, 3)>>, "a.cpp", "Null [p]", "Null\n[p]!"),
     ErrorMessage("cppcheckError", Severity_none, 0, TRUE, <<>>, "", "Bailing out", "Bailing out")}

\* the calls the registered checks make when they describe their messages
Catalogs ==
    {<<>>,
     << [op |-> "reportErr",
         arg |-> ErrorMessage("nullPointer", Severity_error, 476, FALSE, <<>>, "", "Null", "Null.")],
        [op |-> "reportOut", arg |-> "hi"],
        [op |-> "reportErr",
         arg |-> ErrorMessage("nullPointer", Severity_error, 476, FALSE, <<>>, "", "Null", "Null.")],
        [op |-> "reportProgress", arg |-> [filename |-> "a.cpp", stage |-> "parse", value |-> 0]],
        [op |-> "reportErr",
         arg |-> ErrorMessage("uninitvar", Severity_style, 0, TRUE, <<>>, "", "Uninit 'x'", "Uninit")] >>}

Init ==
    /\ verbose \in BOOLEAN
    /\ basePaths = <<"/proj">>
    /\ Constructed
    /\ input = ""
    /\ result = ""

Next ==
    \/ \E outmsg \in Texts : reportOut(outmsg)
    \/ \E filename \in ProgressFiles, stage \in ProgressStages, value \in ProgressValues :
          reportProgress(filename, stage, value)
    \/ \E msg \in Msgs : reportErr(msg)
    \/ \E catalog \in Catalogs : reportInspectionTypes(catalog)

Spec == Init /\ [][Next]_vars

(***************************************************************************)
(* reportErr on every shape of message: the message is drawn at the start  *)
(* and reported, then reported again.                                      *)
(***************************************************************************)
\* file names: none, relative with backslashes, below a base path, below none,
\* a base path itself
PathStrings == {"", "d\\a.c", "/proj/src/a.cpp", "/q/a.c", "/proj"}

\* the settings' base paths
BasePathChoices == {<<>>, <<"/proj">>, <<"", "/q/">>}

\* call stacks: none, one frame for each file name, and two frames
CallStacks ==
    {<<>>}
    \cup {<<FileLocation(file, 12, 3)>> : file \in PathStrings}
    \cup {<<FileLocation("b.c", 0, 0), FileLocation("/q/a.c", 12, 3)>>}

FmtMsgs ==
    {ErrorMessage("id", severity, cwe, inconclusive, callStack, file0, "Null [p]", "Null\n[p]!") :
        severity \in Severities, cwe \in {0, 398}, inconclusive \in BOOLEAN,
        callStack \in CallStacks, file0 \in {"", "a.c", "/proj/src/a.cpp"}}

InitFmt ==
    /\ verbose \in BOOLEAN
    /\ basePaths \in BasePathChoices
    /\ Constructed
    /\ input \in FmtMsgs
    /\ result = ""

NextFmt == reportErr(input)

SpecFmt == InitFmt /\ [][NextFmt]_vars

(***************************************************************************)
(* serviceMessageEscape on every short string over the reserved characters *)
(* and two plain ones.                                                     *)
(***************************************************************************)
EscapeAlphabet == EscapeChars \cup {"a", "n"}

InitEscape ==
    /\ verbose = FALSE
    /\ basePaths = <<>>
    /\ Constructed
    /\ input \in StringsUpTo(EscapeAlphabet, MaxStrLen)
    /\ result = ""

\* one call of serviceMessageEscape
EscapeCall ==
    /\ calls = <<>>
    /\ result' = serviceMessageEscape(input)
    /\ UNCHANGED <<verbose, basePaths, output, _latestProgressFile, _latestProgressStage,
                   _errorList, input>>
    /\ Logged("serviceMessageEscape", input)

NextEscape == EscapeCall

SpecEscape == InitEscape /\ [][NextEscape]_vars

(***************************************************************************)
(* formatServiceMessage on every map built by a short run of assignments.  *)
(***************************************************************************)
FormatNames == {"message", ""}

FormatKeys == {"", "B", "a", "ab"}

FormatValues == {"x", "'|"}

\* the runs of n assignments m[k] = v, and of at most n
RECURSIVE InsertsOfLen(_)
InsertsOfLen(n) ==
    IF n = 0 THEN {<<>>}
    ELSE {Append(ops, <<k, v>>) : ops \in InsertsOfLen(n - 1), k \in FormatKeys, v \in FormatValues}

InitFormat ==
    /\ verbose = FALSE
    /\ basePaths = <<>>
    /\ Constructed
    /\ input \in [name : FormatNames,
                  inserts : UNION {InsertsOfLen(n) : n \in 0..MaxInserts}]
    /\ result = ""

\* one call of formatServiceMessage on the map the assignments build
FormatCall ==
    /\ calls = <<>>
    /\ result' = formatServiceMessageMap(input.name, MapOfInserts(input.inserts))
    /\ UNCHANGED <<verbose, basePaths, output, _latestProgressFile, _latestProgressStage,
                   _errorList, input>>
    /\ Logged("formatServiceMessage", input)

NextFormat == FormatCall

SpecFormat == InitFormat /\ [][NextFormat]_vars

(***************************************************************************)
(* What the claims speak of.                                               *)
(***************************************************************************)
\* the last call made
LastCall == calls[Len(calls)]

\* the last call was a call of op
Called(op) == calls # <<>> /\ LastCall.op = op

\* whether pat occurs in s
Contains(s, pat) ==
    \E i \in 0..(Len(s) - Len(pat)) : SubSeq(s, i + 1, i + Len(pat)) = pat

\* how often pat occurs in s
Occurrences(s, pat) ==
    Cardinality({i \in 0..(Len(s) - Len(pat)) : SubSeq(s, i + 1, i + Len(pat)) = pat})

\* whether s starts with pat, and whether it ends with it
StartsWith(s, pat) == Len(s) >= Len(pat) /\ SubSeq(s, 1, Len(pat)) = pat

EndsWith(s, pat) == Len(s) >= Len(pat) /\ SubSeq(s, Len(s) - Len(pat) + 1, Len(s)) = pat

\* the members of a finite set of numbers in ascending order
RECURSIVE Ascending(_)
Ascending(S) ==
    IF S = {} THEN <<>>
    ELSE LET least == CHOOSE i \in S : \A j \in S : i <= j
         IN  <<least>> \o Ascending(S \ {least})

\* the lines of a text in which every line ends with a newline
TextLines(s) ==
    LET ends == Ascending({i \in 1..Len(s) : SubSeq(s, i, i) = "\n"})
    IN  [k \in 1..Len(ends) |->
            SubSeq(s, IF k = 1 THEN 1 ELSE ends[k - 1] + 1, ends[k] - 1)]

\* s is exactly one line and its newline
OneLine(s) == Occurrences(s, "\n") = 1 /\ EndsWith(s, "\n")

\* a line is a service message of the name
IsMessage(line, name) ==
    /\ StartsWith(line, "##teamcity[" \o name \o " ")
    /\ EndsWith(line, "]")

\* the image of one character under the escaping rule of the protocol
CharImage(c) ==
    CASE c = "'" -> "|'"
      [] c = "[" -> "|["
      [] c = "]" -> "|]"
      [] c = "|" -> "||"
      [] c = "\n" -> "|n"
      [] c = "\r" -> "|r"
      [] OTHER -> c

\* the images of the characters of s, in order
RECURSIVE EscapeImage(_)
EscapeImage(s) ==
    IF s = "" THEN "" ELSE CharImage(SubSeq(s, 1, 1)) \o EscapeImage(SubSeq(s, 2, Len(s)))

\* the line has the attribute key, and has it with the value
HasKey(line, key) == Contains(line, " " \o key \o "='")

HasAttribute(line, key, value) ==
    Contains(line, " " \o key \o "='" \o EscapeImage(value) \o "'")

\* the call left the duplicate set and the last progress pair as they were
SuppressionStateKept ==
    /\ _errorList = pre.errorList
    /\ _latestProgressFile = pre.file
    /\ _latestProgressStage = pre.stage

\* the output is what it was before the call, then what the call wrote
Written == LastCall.wrote

OutputExtended == output = pre.output \o Written

(***************************************************************************)
(* C4: for every string s, serviceMessageEscape(s) is the concatenation in *)
(* order of the images of its characters (' [ ] | get a | in front, a      *)
(* newline becomes |n, a carriage return |r, any other character stays):   *)
(* the empty string gives the empty string, the length grows by the number *)
(* of reserved characters, and an inserted | is not escaped again.         *)
(***************************************************************************)
C4_EscapeIsCharwise ==
    Called("serviceMessageEscape") =>
        /\ result = EscapeImage(input)
        /\ Len(result) = Len(input)
                         + Cardinality({i \in 1..Len(input) : SubSeq(input, i, i) \in EscapeChars})
        /\ (input = "" => result = "")
        /\ Occurrences(result, "\n") = 0
        /\ Occurrences(result, "\r") = 0

\* a carriage return between a pipe and a bracket has been escaped
C4_Witness ==
    /\ Called("serviceMessageEscape")
    /\ input = "|\r]"
    /\ result = "|||r|]"

\* the keys of the model in ascending byte order: the empty key, the upper-case
\* letter, then a before its extension ab
KeysAscending == <<"", "B", "a", "ab">>

\* the map's contents after the assignments: the last value assigned to each key
ContentOf(inserts) ==
    [k \in {inserts[i][1] : i \in 1..Len(inserts)} |->
        inserts[CHOOSE i \in 1..Len(inserts) :
                    /\ inserts[i][1] = k
                    /\ \A j \in (i + 1)..Len(inserts) : inserts[j][1] # k][2]]

\* the pairs of the contents from the i-th key of KeysAscending on
RECURSIVE PairsFrom(_, _)
PairsFrom(content, i) ==
    IF i > Len(KeysAscending) THEN ""
    ELSE (IF KeysAscending[i] \in DOMAIN content
          THEN " " \o KeysAscending[i] \o "='" \o EscapeImage(content[KeysAscending[i]]) \o "'"
          ELSE "")
         \o PairsFrom(content, i + 1)

(***************************************************************************)
(* C5: formatServiceMessage(name, map) is "##teamcity[" and the name, then *)
(* for each key once, in ascending byte-wise key order, a space, the key,  *)
(* =', the escaped value and ', then "]" and no newline; it depends on the *)
(* map's contents alone, and the empty map gives "##teamcity[<name>]".     *)
(***************************************************************************)
C5_FormatIsSortedByKey ==
    Called("formatServiceMessage") =>
        /\ result = "##teamcity[" \o input.name \o PairsFrom(ContentOf(input.inserts), 1) \o "]"
        /\ (input.inserts = <<>> => result = "##teamcity[" \o input.name \o "]")
        /\ Occurrences(result, "\n") = 0

\* three keys assigned in descending order come out ascending
C5_Witness ==
    /\ Called("formatServiceMessage")
    /\ input.name = "message"
    /\ input.inserts = << <<"ab", "x">>, <<"a", "'|">>, <<"B", "x">> >>
    /\ result = "##teamcity[message B='x' a='|'||' ab='x']"

\* the reportErr calls among the first n calls, and their serializations
ErrCalls(n) == {i \in 1..n : calls[i].op = "reportErr"}

ErrSerializations(n) == {serialize(calls[i].arg) : i \in ErrCalls(n)}

\* the lines of a text that are messages of the name
MessageLines(lines, name) ==
    {k \in 1..Len(lines) : StartsWith(lines[k], "##teamcity[" \o name \o " ")}

(***************************************************************************)
(* C1: a reportErr call writes exactly one inspection line when its        *)
(* serialization is that of no earlier reportErr call on the instance, and *)
(* otherwise writes nothing and leaves the duplicate set and the last      *)
(* progress pair unchanged; so each serialization has exactly one          *)
(* inspection line in the output, whatever other calls are interleaved.    *)
(***************************************************************************)
C1_DuplicateErrSuppressed ==
    /\ Called("reportErr") =>
          IF serialize(LastCall.arg) \in ErrSerializations(Len(calls) - 1)
          THEN /\ Written = ""
               /\ output = pre.output
               /\ SuppressionStateKept
          ELSE /\ OneLine(Written)
               /\ IsMessage(SubSeq(Written, 1, Len(Written) - 1), "inspection")
               /\ OutputExtended
    /\ \A s \in ErrSerializations(Len(calls)) :
          Cardinality({i \in ErrCalls(Len(calls)) :
                          serialize(calls[i].arg) = s /\ calls[i].wrote # ""}) = 1
    /\ Cardinality(MessageLines(TextLines(output), "inspection"))
          = Cardinality(ErrSerializations(Len(calls)))

\* a message is reported, a progress line is written, the message is reported again
C1_Witness ==
    /\ Len(calls) = 3
    /\ calls[1].op = "reportErr" /\ calls[1].wrote # ""
    /\ calls[2].op = "reportProgress" /\ calls[2].wrote # ""
    /\ calls[3].op = "reportErr" /\ calls[3].arg = calls[1].arg
    /\ Written = ""

ProgressCalls(n) == {i \in 1..n : calls[i].op = "reportProgress"}

EmittingProgressCalls(n) == {i \in ProgressCalls(n) : calls[i].wrote # ""}

\* the greatest member of a non-empty set of numbers
Latest(S) == CHOOSE i \in S : \A j \in S : j <= i

SamePair(a, b) == a.filename = b.filename /\ a.stage = b.stage

\* the progressMessage line of a pair, as the protocol spells it
ProgressLineOf(filename, stage) ==
    "##teamcity[progressMessage '"
    \o EscapeImage("inspecting '" \o filename \o "' stage: " \o stage) \o "']"

(***************************************************************************)
(* C2: a reportProgress call whose file and stage are those of the most    *)
(* recent earlier reportProgress call that wrote a line writes nothing and *)
(* changes no state, whatever its value argument and whatever other calls  *)
(* came in between; the stored pair is the pair of the last                *)
(* progressMessage line written (the empty pair while there is none).      *)
(***************************************************************************)
C2_RepeatedProgressSuppressed ==
    /\ Called("reportProgress") =>
          LET earlier == EmittingProgressCalls(Len(calls) - 1)
          IN  (earlier # {} /\ SamePair(calls[Latest(earlier)].arg, LastCall.arg)) =>
                 /\ Written = ""
                 /\ output = pre.output
                 /\ SuppressionStateKept
    /\ LET lines == TextLines(output)
           progress == MessageLines(lines, "progressMessage")
       IN  IF progress = {}
           THEN _latestProgressFile = "" /\ _latestProgressStage = ""
           ELSE lines[Latest(progress)]
                   = ProgressLineOf(_latestProgressFile, _latestProgressStage)

\* the pair is reported, a message line is written, the pair is reported again
\* with another value
C2_Witness ==
    /\ Len(calls) = 3
    /\ calls[1].op = "reportProgress" /\ calls[1].wrote # ""
    /\ calls[2].op = "reportErr" /\ calls[2].wrote # ""
    /\ calls[3].op = "reportProgress"
    /\ SamePair(calls[3].arg, calls[1].arg)
    /\ calls[3].arg.value # calls[1].arg.value
    /\ Written = ""

(***************************************************************************)
(* C3: a reportProgress call writes exactly one progressMessage line       *)
(* whenever it is the first progress call on the instance or its file or   *)
(* stage differs from the previous progress call's, for every file and     *)
(* stage, the empty string included.                                       *)
(***************************************************************************)
C3_NewProgressEmitted ==
    Called("reportProgress") =>
        LET earlier == ProgressCalls(Len(calls) - 1)
        IN  (earlier = {} \/ ~SamePair(calls[Latest(earlier)].arg, LastCall.arg)) =>
               /\ OneLine(Written)
               /\ IsMessage(SubSeq(Written, 1, Len(Written) - 1), "progressMessage")

(***************************************************************************)
(* C9: every reportOut call writes exactly one newline-terminated message  *)
(* line whose one attribute, text, is the escaped text, also when the same *)
(* text was reported before, and leaves the duplicate set and the last     *)
(* progress pair unchanged.                                                *)
(***************************************************************************)
C9_ReportOutAlwaysWrites ==
    Called("reportOut") =>
        /\ Written = "##teamcity[message text='" \o EscapeImage(LastCall.arg) \o "']\n"
        /\ OneLine(Written)
        /\ OutputExtended
        /\ SuppressionStateKept

\* a text with a quote and a newline is reported twice, around a message
C9_Witness ==
    /\ Len(calls) = 3
    /\ calls[1].op = "reportOut" /\ calls[1].arg = "a'\nb"
    /\ calls[2].op = "reportErr" /\ calls[2].wrote # ""
    /\ calls[3] = calls[1]
    /\ Written = "##teamcity[message text='a|'|nb']\n"

IsErrCall(call) == call.op = "reportErr"

(***************************************************************************)
(* C10: reportInspectionTypes writes one inspectionType line for each      *)
(* message the registered checks describe, in their order and duplicates   *)
(* included, nothing for the reportOut and reportProgress calls made to    *)
(* its logger, and leaves the duplicate set and the last progress pair     *)
(* unchanged: right after it a message reported for the first time is      *)
(* still written and a repeated progress pair is still suppressed.         *)
(***************************************************************************)
C10_CatalogLinesOnly ==
    /\ Called("reportInspectionTypes") =>
          LET kinds == SelectSeq(LastCall.arg, IsErrCall)
              lines == TextLines(Written)
          IN  /\ (Written = "" \/ EndsWith(Written, "\n"))
              /\ Len(lines) = Len(kinds)
              /\ \A i \in 1..Len(kinds) :
                    /\ IsMessage(lines[i], "inspectionType")
                    /\ HasAttribute(lines[i], "id", kinds[i].arg.id)
                    /\ HasAttribute(lines[i], "name", kinds[i].arg.id)
              /\ OutputExtended
              /\ SuppressionStateKept
    /\ (Len(calls) >= 2 /\ calls[Len(calls) - 1].op = "reportInspectionTypes") =>
          /\ (Called("reportErr") /\ serialize(LastCall.arg) \notin pre.errorList)
                => Written # ""
          /\ (Called("reportProgress") /\ LastCall.arg.filename = pre.file
                                       /\ LastCall.arg.stage = pre.stage)
                => Written = ""

\* after a message was reported, the checks describe three kinds, one of them
\* twice, between a reportOut and a reportProgress call to the logger
C10_Witness ==
    /\ Called("reportInspectionTypes")
    /\ Len(LastCall.arg) = 5
    /\ Len(TextLines(Written)) = 3
    /\ TextLines(Written)[1] = TextLines(Written)[2]
    /\ _errorList # {}

(***************************************************************************)
(* The claims about the line reportErr writes.                             *)
(***************************************************************************)
\* the last call was a reportErr call that wrote
Emitted == Called("reportErr") /\ Written # ""

\* the line it wrote, without its newline
WrittenLine == SubSeq(Written, 1, Len(Written) - 1)

\* the SEVERITY value of each severity that has one
SeverityLabels ==
    [s \in {Severity_error, Severity_warning, Severity_information, Severity_debug,
            Severity_style, Severity_performance, Severity_portability} |->
        CASE s = Severity_error -> "ERROR"
          [] s = Severity_warning -> "WARNING"
          [] s \in {Severity_information, Severity_debug, Severity_style} -> "INFO"
          [] s \in {Severity_performance, Severity_portability} -> "WEAK WARNING"]

(***************************************************************************)
(* C6: in every line reportErr writes, the SEVERITY attribute follows from *)
(* the severity alone: ERROR for error, WARNING for warning, INFO for      *)
(* information, debug and style, WEAK WARNING for performance and          *)
(* portability; for none the inspection line is written without it.        *)
(***************************************************************************)
C6_SeverityMapping ==
    Emitted =>
        /\ OneLine(Written)
        /\ IsMessage(WrittenLine, "inspection")
        /\ IF LastCall.arg.severity \in DOMAIN SeverityLabels
           THEN /\ HasAttribute(WrittenLine, "SEVERITY", SeverityLabels[LastCall.arg.severity])
                /\ Occurrences(WrittenLine, " SEVERITY='") = 1
           ELSE ~HasKey(WrittenLine, "SEVERITY")

\* a style message is written as INFO
C6_Witness ==
    /\ Emitted
    /\ LastCall.arg.severity = Severity_style
    /\ HasAttribute(WrittenLine, "SEVERITY", "INFO")

SelectedFile(msg) ==
    IF msg.callStack = <<>> THEN msg.file0 ELSE msg.callStack[1].file

ExpectedFile(msg) ==
    IF SelectedFile(msg) = "" THEN "<cppcheck>"
    ELSE LET native == Path_fromNativeSeparators(SelectedFile(msg))
         IN  "./" \o (IF Path_isAbsolute(native)
                      THEN Path_getRelativePath(native, basePaths)
                      ELSE native)

(***************************************************************************)
(* C7: in every line reportErr writes, the file attribute is <cppcheck>    *)
(* exactly when the selected file (the first frame's when there are        *)
(* frames, else the message's own) is empty; otherwise it is "./" and the  *)
(* path with forward slashes, made relative to the base paths when it is   *)
(* absolute: base /proj and file /proj/src/a.cpp give ./src/a.cpp.         *)
(***************************************************************************)
C7_FileAttribute ==
    Emitted =>
        /\ HasAttribute(WrittenLine, "file", ExpectedFile(LastCall.arg))
        /\ Occurrences(WrittenLine, " file='") = 1
        /\ SelectedFile(LastCall.arg) = "" <=> HasAttribute(WrittenLine, "file", "<cppcheck>")
        /\ SelectedFile(LastCall.arg) # "" <=> Contains(WrittenLine, " file='./")
        /\ (basePaths = <<"/proj">> /\ SelectedFile(LastCall.arg) = "/proj/src/a.cpp")
              => HasAttribute(WrittenLine, "file", "./src/a.cpp")
        /\ SelectedFile(LastCall.arg) = "d\\a.c" => HasAttribute(WrittenLine, "file", "./d/a.c")

\* the first frame's file lies below the base path /proj
C7_Witness ==
    /\ Emitted
    /\ basePaths = <<"/proj">>
    /\ LastCall.arg.callStack # <<>>
    /\ SelectedFile(LastCall.arg) = "/proj/src/a.cpp"
    /\ LastCall.arg.file0 = "a.c"
    /\ HasAttribute(WrittenLine, "file", "./src/a.cpp")

AttributeKeys ==
    {"typeId", "message", "file", "line", "column", "cwe", "inconclusive", "SEVERITY"}

ExpectedKeys(msg) ==
    {"typeId", "message", "file"}
    \cup (IF msg.callStack # <<>> THEN {"line", "column"} ELSE {})
    \cup (IF msg.cwe # 0 THEN {"cwe"} ELSE {})
    \cup (IF msg.inconclusive THEN {"inconclusive"} ELSE {})
    \cup (IF msg.severity \in DOMAIN SeverityLabels THEN {"SEVERITY"} ELSE {})

(***************************************************************************)
(* C8: the attributes of every line reportErr writes are typeId, message   *)
(* and file; line and column exactly when there are frames (from the first *)
(* frame, also when its file is empty); cwe exactly when the weakness code *)
(* is not zero; inconclusive='true' exactly when the flag is set; SEVERITY *)
(* exactly for the seven mapped severities; and message is the verbose     *)
(* text when the verbose setting is on, else the short text.               *)
(***************************************************************************)
C8_AttributeKeys ==
    Emitted =>
        LET msg == LastCall.arg
        IN  /\ {k \in AttributeKeys : HasKey(WrittenLine, k)} = ExpectedKeys(msg)
            /\ Occurrences(WrittenLine, "='") = Cardinality(ExpectedKeys(msg))
            /\ HasAttribute(WrittenLine, "typeId", msg.id)
            /\ HasAttribute(WrittenLine, "message",
                            IF verbose THEN msg.verboseMessage ELSE msg.shortMessage)
            /\ msg.callStack # <<>> =>
                  /\ HasAttribute(WrittenLine, "line", ToString(msg.callStack[1].line))
                  /\ HasAttribute(WrittenLine, "column", ToString(msg.callStack[1].col))
            /\ msg.cwe # 0 => HasAttribute(WrittenLine, "cwe", ToString(msg.cwe))
            /\ msg.inconclusive => HasAttribute(WrittenLine, "inconclusive", "true")

\* an inconclusive message without weakness code or severity whose only frame
\* has no file, under the verbose setting
C8_Witness ==
    /\ Emitted
    /\ verbose
    /\ LastCall.arg.callStack = <<FileLocation("", 12, 3)>>
    /\ LastCall.arg.file0 = "a.c"
    /\ LastCall.arg.cwe = 0
    /\ LastCall.arg.inconclusive
    /\ LastCall.arg.severity = Severity_none
    /\ {k \in AttributeKeys : HasKey(WrittenLine, k)}
          = {"typeId", "message", "file", "line", "column", "inconclusive"}

====
